---- MODULE Spec2Model ----
(***************************************************************************)
(* Model of the BBSCAS speculative-execution simulator: the branch         *)
(* predictor, the two-level FIFO cache and the pipeline mapper of          *)
(* js/cpuModel.js, the DefenceToolkit of js/defence.js and the             *)
(* AttackSimulator of js/attack.js.                                        *)
(*                                                                         *)
(* JavaScript values that cross a validated boundary are modelled as       *)
(* records [typeof, kind, val] so that typeof / Number.isNaN checks are    *)
(* computed, not assumed.  Booleans carry val 1 (true) or 0 (false).       *)
(***************************************************************************)
EXTENDS Integers, Sequences, FiniteSets, TLC

VARIABLES
  cache,      \* AttackSimulator.cache: the CacheModel
  predictor,  \* AttackSimulator.predictor: the BranchPredictor
  toolkit,    \* AttackSimulator.defence: the DefenceToolkit
  last,       \* the most recent call: its operation, arguments and outcome
  calls       \* number of budgeted calls made so far

vars == <<cache, predictor, toolkit, last, calls>>

\* the value a computation produced, computed once
The(S) == CHOOSE x \in S : TRUE

-----------------------------------------------------------------------------
(* JavaScript values *)

Num(n) == [typeof |-> "number", kind |-> "finite", val |-> n]

NaN == [typeof |-> "number", kind |-> "nan", val |-> 0]

PosInfinity == [typeof |-> "number", kind |-> "inf", val |-> 1]

NegInfinity == [typeof |-> "number", kind |-> "inf", val |-> -1]

\* a string of length n
Str(n) == [typeof |-> "string", kind |-> "string", val |-> n]

Undefined == [typeof |-> "undefined", kind |-> "undefined", val |-> 0]

Bool(b) == [typeof |-> "boolean", kind |-> "boolean", val |-> IF b THEN 1 ELSE 0]

NumberIsNaN(v) == v.typeof = "number" /\ v.kind = "nan"

-----------------------------------------------------------------------------
(* Bounds of the exploration *)

\* longest MOCK_MEMORY prefix a direct prime call covers
MaxPrime == 17

\* number of MOCK_MEMORY entries a direct access call may name
MaxAccessAddr == 3

\* number of direct cache calls in one behaviour of SpecCache
MaxCacheCalls == 5

\* number of accepted runs and direct predictions in one behaviour of Spec
MaxRuns == 2

\* number of direct predictions in one behaviour of SpecPredictor
MaxPredicts == 6

\* length of the longest training sequence among the patterns run
MaxTraining == 31

\* number of accepted runs in one behaviour of SpecCalls
MaxAnyRuns == 1

\* number of entries of the longest timing record transformed directly
MaxEntries == 3

\* the longest instruction array handed to Pipeline.simulate
MaxInstructions == 5

\* the number of run calls issued on one simulator without being awaited
MaxAsyncCalls == 2

-----------------------------------------------------------------------------
(* js/attack.js: the fixed address pool, 32 addresses 0, 4, 8, ... *)

MockMemoryLength == 32

MOCK_MEMORY == [i \in 1..MockMemoryLength |-> Num((i - 1) * 4)]

\* Array.prototype.slice(0, count)
Slice0(arr, count) ==
  IF count >= Len(arr) THEN arr
  ELSE IF count <= 0 THEN <<>>
  ELSE SubSeq(arr, 1, count)

-----------------------------------------------------------------------------
(* js/cpuModel.js: CacheLevel and CacheModel *)

L1Size == 8

L1Latency == 8

L2Size == 16

L2Latency == 16

MissLatency == 42

CacheLevel(name, size, latency) ==
  [name |-> name, size |-> size, latency |-> latency, lines |-> <<>>]

\* new CacheModel(): lines is the key order of the Map
CacheModel ==
  [levels |-> << CacheLevel("L1", L1Size, L1Latency),
                 CacheLevel("L2", L2Size, L2Latency) >>,
   missLatency |-> MissLatency]

\* Map.prototype.has
MapHas(lines, address) == \E i \in DOMAIN lines : lines[i] = address

\* variant of CacheLevel._insert that never evicts
CacheLevel_insert_NoEvict(level, address) ==
  [level EXCEPT !.lines = Append(level.lines, address)]

\* CacheLevel._insert: drop the first key when full, then append the new key
CacheLevel_insert(level, address) ==
  LET kept == IF Len(level.lines) >= level.size THEN Tail(level.lines)
              ELSE level.lines
  IN [level EXCEPT !.lines = Append(kept, address)]

\* variant of the guard that forgets Number.isNaN
InvalidAddress_TypeofOnly(address) == address.typeof # "number"

\* the guard of CacheLevel.access that throws
InvalidAddress(address) == address.typeof # "number" \/ NumberIsNaN(address)

\* variant of CacheLevel.access that reports a miss without installing
CacheLevel_access_NoInstall(level, address) ==
  IF InvalidAddress(address)
  THEN [level |-> level, threw |-> TRUE, error |-> "invalid address",
        result |-> [level |-> level.name, hit |-> FALSE, latency |-> 0]]
  ELSE [level |-> level, threw |-> FALSE, error |-> "",
        result |-> [level |-> level.name, hit |-> MapHas(level.lines, address),
                    latency |-> level.latency]]

\* variant of CacheLevel.access that moves a line to the newest position on a
\* hit (LRU instead of FIFO)
CacheLevel_access_RefreshOnHit(level, address) ==
  IF InvalidAddress(address)
  THEN [level |-> level, threw |-> TRUE, error |-> "invalid address",
        result |-> [level |-> level.name, hit |-> FALSE, latency |-> 0]]
  ELSE LET hit == MapHas(level.lines, address)
           others == SelectSeq(level.lines, LAMBDA x : x # address)
       IN [level |-> IF hit THEN [level EXCEPT !.lines = Append(others, address)]
                     ELSE CacheLevel_insert(level, address),
           threw |-> FALSE, error |-> "",
           result |-> [level |-> level.name, hit |-> hit, latency |-> level.latency]]

\* CacheLevel.access: <<level after the call, outcome>>
CacheLevel_access(level, address) ==
  IF InvalidAddress(address)
  THEN [level |-> level, threw |-> TRUE, error |-> "invalid address",
        result |-> [level |-> level.name, hit |-> FALSE, latency |-> 0]]
  ELSE LET hit == MapHas(level.lines, address)
       IN [level |-> IF hit THEN level ELSE CacheLevel_insert(level, address),
           threw |-> FALSE, error |-> "",
           result |-> [level |-> level.name, hit |-> hit, latency |-> level.latency]]

RECURSIVE CacheModel_accessFrom(_, _, _)
\* variant of the loop that installs a missing address into L1 only
CacheModel_accessFrom_InstallL1Only(c, address, i) ==
  IF i > Len(c.levels)
  THEN [cache |-> c, threw |-> FALSE, error |-> "",
        result |-> [level |-> "memory", hit |-> FALSE, latency |-> c.missLatency]]
  ELSE LET r == CacheLevel_access(c.levels[i], address)
           c2 == IF i = 1 THEN [c EXCEPT !.levels[i] = r.level] ELSE c
       IN IF r.threw
          THEN [cache |-> c2, threw |-> TRUE, error |-> r.error, result |-> r.result]
          ELSE IF r.result.hit
          THEN [cache |-> c2, threw |-> FALSE, error |-> "",
                result |-> [r.result EXCEPT !.hit = TRUE]]
          ELSE CacheModel_accessFrom(c2, address, i + 1)

\* variant of the loop that installs an address only when every level misses:
\* a hit in a lower level does not fill the levels above it
CacheModel_accessFrom_FillOnFullMiss(c, address, i) ==
  LET holders == {j \in i..Len(c.levels) : MapHas(c.levels[j].lines, address)}
      first == CHOOSE j \in holders : \A k \in holders : j <= k
  IN IF i > Len(c.levels)
     THEN [cache |-> c, threw |-> FALSE, error |-> "",
           result |-> [level |-> "memory", hit |-> FALSE, latency |-> c.missLatency]]
     ELSE IF InvalidAddress(address)
     THEN [cache |-> c, threw |-> TRUE, error |-> "invalid address",
           result |-> [level |-> c.levels[i].name, hit |-> FALSE, latency |-> 0]]
     ELSE IF holders # {}
     THEN [cache |-> c, threw |-> FALSE, error |-> "",
           result |-> [level |-> c.levels[first].name, hit |-> TRUE,
                       latency |-> c.levels[first].latency]]
     ELSE [cache |-> [c EXCEPT !.levels =
                        [j \in DOMAIN c.levels |->
                           IF j >= i THEN CacheLevel_insert(c.levels[j], address)
                           ELSE c.levels[j]]],
           threw |-> FALSE, error |-> "",
           result |-> [level |-> "memory", hit |-> FALSE, latency |-> c.missLatency]]

\* variant of the loop that does not return at the first hit but at the last
CacheModel_accessFrom_LastHit(c, address, i) ==
  IF i > Len(c.levels)
  THEN [cache |-> c, threw |-> FALSE, error |-> "",
        result |-> [level |-> "memory", hit |-> FALSE, latency |-> c.missLatency]]
  ELSE LET r == CacheLevel_access(c.levels[i], address)
           c2 == [c EXCEPT !.levels[i] = r.level]
           rest == CacheModel_accessFrom(c2, address, i + 1)
       IN IF r.threw
          THEN [cache |-> c2, threw |-> TRUE, error |-> r.error, result |-> r.result]
          ELSE IF r.result.hit /\ ~rest.result.hit
          THEN [cache |-> c2, threw |-> FALSE, error |-> "",
                result |-> [r.result EXCEPT !.hit = TRUE]]
          ELSE rest

\* the for-loop of CacheModel.access, from level index i on
CacheModel_accessFrom(c, address, i) ==
  IF i > Len(c.levels)
  THEN [cache |-> c, threw |-> FALSE, error |-> "",
        result |-> [level |-> "memory", hit |-> FALSE, latency |-> c.missLatency]]
  ELSE LET r == CacheLevel_access(c.levels[i], address)
           c2 == [c EXCEPT !.levels[i] = r.level]
       IN IF r.threw
          THEN [cache |-> c2, threw |-> TRUE, error |-> r.error, result |-> r.result]
          ELSE IF r.result.hit
          THEN [cache |-> c2, threw |-> FALSE, error |-> "",
                result |-> [r.result EXCEPT !.hit = TRUE]]
          ELSE CacheModel_accessFrom(c2, address, i + 1)

CacheModel_access(c, address) == CacheModel_accessFrom(c, address, 1)

RECURSIVE CacheModel_primeFrom(_, _, _, _)
\* addresses.map(addr => this.access(addr)) over addresses[lo..hi], in index
\* order (the lower half, then the upper half from the cache the lower half
\* left); a throw stops the map and keeps the mutations made so far
CacheModel_primeFrom(c, addresses, lo, hi) ==
  IF lo > hi
  THEN [cache |-> c, threw |-> FALSE, error |-> "", results |-> <<>>]
  ELSE IF lo = hi
  THEN The({ [cache |-> r.cache, threw |-> r.threw, error |-> r.error,
              results |-> IF r.threw THEN <<>> ELSE <<r.result>>]
             : r \in {CacheModel_access(c, addresses[lo])} })
  ELSE The({ IF lower.threw THEN lower
             ELSE The({ [upper EXCEPT !.results = lower.results \o upper.results]
                        : upper \in {CacheModel_primeFrom(
                                       lower.cache, addresses,
                                       (lo + hi) \div 2 + 1, hi)} })
             : lower \in {CacheModel_primeFrom(c, addresses, lo, (lo + hi) \div 2)} })

CacheModel_prime(c, addresses) ==
  CacheModel_primeFrom(c, addresses, 1, Len(addresses))

CacheModel_probe(c, addresses) ==
  CacheModel_primeFrom(c, addresses, 1, Len(addresses))

\* CacheLevel.snapshot / CacheModel.snapshot
CacheLevel_snapshot(level) == [i \in DOMAIN level.lines |-> [address |-> level.lines[i]]]

CacheModel_snapshot(c) ==
  [i \in DOMAIN c.levels |->
     [name |-> c.levels[i].name, lines |-> CacheLevel_snapshot(c.levels[i])]]

-----------------------------------------------------------------------------
(* js/cpuModel.js: BranchPredictor *)

HistoryLimit == 16

\* new BranchPredictor()
BranchPredictor == [history |-> <<>>, threshold |-> 2, counter |-> 2]

\* Boolean(value)
ToBoolean(v) ==
  CASE v.typeof = "boolean" -> v.val = 1
    [] v.typeof = "number" -> v.kind = "inf" \/ (v.kind = "finite" /\ v.val # 0)
    [] v.typeof = "string" -> v.val > 0
    [] OTHER -> FALSE

Min(a, b) == IF a <= b THEN a ELSE b

Max(a, b) == IF a >= b THEN a ELSE b

\* BranchPredictor._update saturating a three-bit counter at 7
BranchPredictor_update_Wide(p, outcome) ==
  LET counter == IF outcome THEN Min(7, p.counter + 1) ELSE Max(0, p.counter - 1)
      pushed == Append(p.history, outcome)
      history == IF Len(pushed) > HistoryLimit THEN Tail(pushed) ELSE pushed
  IN [p EXCEPT !.counter = counter, !.history = history]

\* BranchPredictor._update without Math.min / Math.max
BranchPredictor_update_NoCap(p, outcome) ==
  LET counter == IF outcome THEN p.counter + 1 ELSE p.counter - 1
      pushed == Append(p.history, outcome)
      history == IF Len(pushed) > HistoryLimit THEN Tail(pushed) ELSE pushed
  IN [p EXCEPT !.counter = counter, !.history = history]

\* BranchPredictor._update
BranchPredictor_update(p, outcome) ==
  LET counter == IF outcome THEN Min(3, p.counter + 1) ELSE Max(0, p.counter - 1)
      pushed == Append(p.history, outcome)
      history == IF Len(pushed) > HistoryLimit THEN Tail(pushed) ELSE pushed
  IN [p EXCEPT !.counter = counter, !.history = history]

\* BranchPredictor.predict reading the counter after _update
BranchPredictor_predict_PostUpdate(p, outcome) ==
  LET normalizedOutcome == ToBoolean(outcome)
      updated == BranchPredictor_update(p, normalizedOutcome)
  IN [predictor |-> updated,
      prediction |-> updated.counter >= updated.threshold,
      warned |-> outcome.typeof # "boolean"]

\* BranchPredictor.predict
BranchPredictor_predict(p, outcome) ==
  LET normalizedOutcome == ToBoolean(outcome)
      prediction == p.counter >= p.threshold
  IN [predictor |-> BranchPredictor_update(p, normalizedOutcome),
      prediction |-> prediction,
      warned |-> outcome.typeof # "boolean"]

\* BranchPredictor.getConfidence: counter / 3 as a fraction
BranchPredictor_getConfidence(p) == [num |-> p.counter, den |-> 3]

-----------------------------------------------------------------------------
(* js/defence.js: DefenceToolkit, stored toggles *)

ToggleKeys == {"constantTime", "jitter", "fence", "clampTimers", "detection"}

\* new DefenceToolkit()
DefenceToolkit ==
  [state |-> [constantTime |-> TRUE, jitter |-> TRUE, fence |-> TRUE,
              clampTimers |-> TRUE, detection |-> TRUE]]

\* DefenceToolkit._assertBoolean: TRUE when it throws
DefenceToolkit_assertBoolean(value) == value.typeof # "boolean"

\* a setter that stores the truthiness of whatever it is given
DefenceToolkit_set_Coerce(t, key, value) ==
  [toolkit |-> [t EXCEPT !.state[key] = ToBoolean(value)],
   threw |-> FALSE, error |-> ""]

\* the body shared by the five setters: validate, then store
DefenceToolkit_set(t, key, value) ==
  IF DefenceToolkit_assertBoolean(value)
  THEN [toolkit |-> t, threw |-> TRUE, error |-> "expected boolean"]
  ELSE [toolkit |-> [t EXCEPT !.state[key] = (value.val = 1)],
        threw |-> FALSE, error |-> ""]

DefenceToolkit_setConstantTime(t, value) == DefenceToolkit_set(t, "constantTime", value)

DefenceToolkit_setJitter(t, value) == DefenceToolkit_set(t, "jitter", value)

DefenceToolkit_setFence(t, value) == DefenceToolkit_set(t, "fence", value)

DefenceToolkit_setClampTimers(t, value) == DefenceToolkit_set(t, "clampTimers", value)

DefenceToolkit_setDetection(t, value) == DefenceToolkit_set(t, "detection", value)

\* DefenceToolkit.getState returning the stored toggles whatever the flag
DefenceToolkit_getState_IgnoreFlag(t, defended) ==
  [toolkit |-> t, result |-> t.state]

\* DefenceToolkit.getState forcing the stored toggles themselves to false
DefenceToolkit_getState_InPlace(t, defended) ==
  LET enabled == t.state
      view == IF ToBoolean(defended) THEN enabled
              ELSE [key \in DOMAIN enabled |-> FALSE]
  IN [toolkit |-> [t EXCEPT !.state = view], result |-> view]

\* DefenceToolkit.getState whose baseline view keeps the detection toggle
DefenceToolkit_getState_KeepDetection(t, defended) ==
  LET enabled == t.state
  IN [toolkit |-> t,
      result |-> IF ToBoolean(defended) THEN enabled
                 ELSE [key \in DOMAIN enabled |->
                         key = "detection" /\ enabled.detection]]

\* DefenceToolkit.getState: the toolkit after the call and the returned record
DefenceToolkit_getState(t, defended) ==
  LET enabled == t.state
  IN [toolkit |-> t,
      result |-> IF ToBoolean(defended) THEN enabled
                 ELSE [key \in DOMAIN enabled |-> FALSE]]

\* DefenceToolkit._assertAddresses: TRUE when it throws
DefenceToolkit_assertAddresses(addresses) ==
  \E i \in DOMAIN addresses :
    addresses[i].typeof # "number" \/ NumberIsNaN(addresses[i])

\* DefenceToolkit.applyFence: the same values, copied or not
DefenceToolkit_applyFence(addresses, state) ==
  IF DefenceToolkit_assertAddresses(addresses)
  THEN [threw |-> TRUE, error |-> "expected numeric addresses", result |-> <<>>]
  ELSE [threw |-> FALSE, error |-> "", result |-> addresses]

-----------------------------------------------------------------------------
(* Timing arithmetic.  A timing is a JavaScript number whose val counts      *)
(* 1/Scale units: the mean of two, three or four integer latencies and one   *)
(* further halving are then exact.                                           *)

Scale == 2 * 3 * 4

\* the timing n units
T(n) == Num(n * Scale)

\* a < b on numbers (false when either is NaN)
JsLess(a, b) ==
  /\ ~NumberIsNaN(a) /\ ~NumberIsNaN(b)
  /\ IF a.kind = "inf" /\ b.kind = "inf" THEN a.val < b.val
     ELSE IF a.kind = "inf" THEN a.val < 0
     ELSE IF b.kind = "inf" THEN b.val > 0
     ELSE a.val < b.val

\* Math.min(a, b)
MathMin(a, b) ==
  IF NumberIsNaN(a) \/ NumberIsNaN(b) THEN NaN ELSE IF JsLess(b, a) THEN b ELSE a

\* Math.max(a, b)
MathMax(a, b) ==
  IF NumberIsNaN(a) \/ NumberIsNaN(b) THEN NaN ELSE IF JsLess(a, b) THEN b ELSE a

\* a + b
JsAdd(a, b) ==
  IF NumberIsNaN(a) \/ NumberIsNaN(b) THEN NaN
  ELSE IF a.kind = "inf" /\ b.kind = "inf"
  THEN (IF a.val = b.val THEN a ELSE NaN)
  ELSE IF a.kind = "inf" THEN a
  ELSE IF b.kind = "inf" THEN b
  ELSE Num(a.val + b.val)

\* a / n for an integer n > 0
JsDivInt(a, n) ==
  IF a.kind = "finite" THEN Num(a.val \div n) ELSE a

\* cpuModel.js clampTiming: Math.max(20, Math.min(value, 180))
clampTiming(value) == MathMax(T(20), MathMin(value, T(180)))

\* Math.random() returns sample / RandomDen, 0 <= sample < RandomDen
RandomDen == 40

\* Math.floor(Math.random() * n)
RandomInt(sample, n) == (sample * n) \div RandomDen

\* artificialDelay drawing over a range of 8 whatever its jitter argument
artificialDelay_AlwaysDraws(base, jitter, sample) ==
  LET variance == Num((RandomInt(sample, 8) * Scale) - ((8 * Scale) \div 2))
  IN clampTiming(JsAdd(base, variance))

\* artificialDelay returning base + variance as it is
artificialDelay_NoClamp(base, jitter, sample) ==
  LET variance == IF jitter # 0
                  THEN Num((RandomInt(sample, jitter) * Scale) - ((jitter * Scale) \div 2))
                  ELSE Num(0)
  IN JsAdd(base, variance)

\* attack.js artificialDelay(base, jitter): draws once when jitter is non-zero
artificialDelay(base, jitter, sample) ==
  LET variance == IF jitter # 0
                  THEN Num((RandomInt(sample, jitter) * Scale) - ((jitter * Scale) \div 2))
                  ELSE Num(0)
  IN clampTiming(JsAdd(base, variance))

-----------------------------------------------------------------------------
(* js/defence.js: transformations of timing records.  A timing record is    *)
(* the sequence of its [key, value] entries in Object.entries order.        *)

Entry(key, value) == [key |-> key, value |-> value]

Keys(timings) == {timings[i].key : i \in DOMAIN timings}

HasKey(timings, key) == \E i \in DOMAIN timings : timings[i].key = key

\* timings[key]; undefined when the key is absent
Get(timings, key) ==
  IF HasKey(timings, key)
  THEN timings[CHOOSE i \in DOMAIN timings : timings[i].key = key].value
  ELSE Undefined

\* timings[key] = value: in place for a present key, appended otherwise
Put(timings, key, value) ==
  IF HasKey(timings, key)
  THEN [i \in DOMAIN timings |->
          IF timings[i].key = key THEN Entry(key, value) ELSE timings[i]]
  ELSE Append(timings, Entry(key, value))

\* DefenceToolkit._validateTimings on an object: "" when it passes
DefenceToolkit_validateTimings(timings) ==
  IF Len(timings) = 0 THEN "Timing data must include at least one measurement"
  ELSE IF \E i \in DOMAIN timings :
            timings[i].value.typeof # "number" \/ NumberIsNaN(timings[i].value)
  THEN "Timing must be numeric"
  ELSE ""

RECURSIVE MathMaxFrom(_, _, _)
\* Math.max(...values), folded from -Infinity
MathMaxFrom(timings, i, acc) ==
  IF i > Len(timings) THEN acc
  ELSE MathMaxFrom(timings, i + 1, MathMax(acc, timings[i].value))

\* applyConstantTime clamping every value by itself
DefenceToolkit_applyConstantTime_PerValue(timings) ==
  LET err == DefenceToolkit_validateTimings(timings)
  IN IF err # "" THEN [threw |-> TRUE, error |-> err, result |-> <<>>]
     ELSE [threw |-> FALSE, error |-> "",
           result |-> [i \in DOMAIN timings |->
                         Entry(timings[i].key, clampTiming(timings[i].value))]]

\* applyConstantTime levelling to the maximum without clamping it
DefenceToolkit_applyConstantTime_NoClamp(timings) ==
  LET err == DefenceToolkit_validateTimings(timings)
      max == MathMaxFrom(timings, 1, NegInfinity)
  IN IF err # "" THEN [threw |-> TRUE, error |-> err, result |-> <<>>]
     ELSE [threw |-> FALSE, error |-> "",
           result |-> [i \in DOMAIN timings |-> Entry(timings[i].key, max)]]

\* DefenceToolkit.applyConstantTime
DefenceToolkit_applyConstantTime(timings) ==
  LET err == DefenceToolkit_validateTimings(timings)
      max == MathMaxFrom(timings, 1, NegInfinity)
  IN IF err # "" THEN [threw |-> TRUE, error |-> err, result |-> <<>>]
     ELSE [threw |-> FALSE, error |-> "",
           result |-> [i \in DOMAIN timings |-> Entry(timings[i].key, clampTiming(max))]]

\* _jitter drawing an offset from -10 to 9
DefenceToolkit_jitter_Wide(sample) == Num((RandomInt(sample, 20) - 10) * Scale)

\* DefenceToolkit._jitter: Math.floor(Math.random() * 10) - 5
DefenceToolkit_jitter(sample) == Num((RandomInt(sample, 10) - 5) * Scale)

\* value / 2, where undefined / 2 is NaN
HalfOf(value) ==
  IF value.typeof # "number" THEN NaN ELSE JsDivInt(value, 2)

\* applyDefences dampening on every mispredict, whatever state.fence says
DefenceToolkit_applyDefences_AlwaysFence(timings, mispredict, state, samples) ==
  LET err == DefenceToolkit_validateTimings(timings)
      jittered ==
        IF state.jitter
        THEN [i \in DOMAIN timings |->
                Entry(timings[i].key,
                      clampTiming(JsAdd(timings[i].value,
                                        DefenceToolkit_jitter(samples[i]))))]
        ELSE timings
      fenced ==
        IF mispredict
        THEN Put(jittered, "speculate", clampTiming(HalfOf(Get(jittered, "speculate"))))
        ELSE jittered
  IN IF err # "" THEN [threw |-> TRUE, error |-> err, result |-> <<>>]
     ELSE [threw |-> FALSE, error |-> "", result |-> fenced]

\* DefenceToolkit.applyDefences; samples[i] is the draw made for entry i
DefenceToolkit_applyDefences(timings, mispredict, state, samples) ==
  LET err == DefenceToolkit_validateTimings(timings)
      jittered ==
        IF state.jitter
        THEN [i \in DOMAIN timings |->
                Entry(timings[i].key,
                      clampTiming(JsAdd(timings[i].value,
                                        DefenceToolkit_jitter(samples[i]))))]
        ELSE timings
      fenced ==
        IF state.fence /\ mispredict
        THEN Put(jittered, "speculate", clampTiming(HalfOf(Get(jittered, "speculate"))))
        ELSE jittered
  IN IF err # "" THEN [threw |-> TRUE, error |-> err, result |-> <<>>]
     ELSE [threw |-> FALSE, error |-> "", result |-> fenced]

\* Math.floor(v / 5) * 5 in place of Math.round
RoundToFive_Floor(value) ==
  IF value.kind = "finite"
  THEN Num((value.val \div (5 * Scale)) * (5 * Scale))
  ELSE value

\* Math.round(v / 5) * 5 on a timing: Math.round rounds halves up
RoundToFive(value) ==
  IF value.kind = "finite"
  THEN Num(((2 * value.val + 5 * Scale) \div (10 * Scale)) * (5 * Scale))
  ELSE value

\* DefenceToolkit.clampTiming (the method)
DefenceToolkit_clampTiming(timings) ==
  LET err == DefenceToolkit_validateTimings(timings)
  IN IF err # "" THEN [threw |-> TRUE, error |-> err, result |-> <<>>]
     ELSE [threw |-> FALSE, error |-> "",
           result |-> [i \in DOMAIN timings |->
                         Entry(timings[i].key, RoundToFive(timings[i].value))]]

RECURSIVE SumVals(_, _)
\* sum of the val fields of the first n entries
SumVals(timings, n) ==
  IF n = 0 THEN 0 ELSE SumVals(timings, n - 1) + timings[n].value.val

RECURSIVE SumSquaredDeviations(_, _, _)
\* sum over the first n entries of (len * v - sum)^2
SumSquaredDeviations(timings, n, sum) ==
  IF n = 0 THEN 0
  ELSE SumSquaredDeviations(timings, n - 1, sum)
       + (Len(timings) * timings[n].value.val - sum)
         * (Len(timings) * timings[n].value.val - sum)

AllFinite(timings) == \A i \in DOMAIN timings : timings[i].value.kind = "finite"

\* DefenceToolkit.detectAnomaly.  avg and the variance are exact fractions
\* in units; std is the square root of variance, so std > 12 iff variance > 144.
\* A non-finite value makes avg non-finite and std NaN (never > 12).
DefenceToolkit_detectAnomaly(timings) ==
  LET err == DefenceToolkit_validateTimings(timings)
      n == Len(timings)
      sum == SumVals(timings, n)
      sq == SumSquaredDeviations(timings, n, sum)
      varDen == n * n * n * Scale * Scale
  IN IF err # "" THEN [threw |-> TRUE, error |-> err]
     ELSE IF ~AllFinite(timings)
     THEN [threw |-> FALSE, error |-> "", finite |-> FALSE,
           avg |-> [num |-> 0, den |-> 1], variance |-> [num |-> 0, den |-> 1],
           suspicious |-> FALSE]
     ELSE [threw |-> FALSE, error |-> "", finite |-> TRUE,
           avg |-> [num |-> sum, den |-> n * Scale],
           variance |-> [num |-> sq, den |-> varDen],
           suspicious |-> sq > 12 * 12 * varDen]


-----------------------------------------------------------------------------
(* js/cpuModel.js: Pipeline and buildSpeculativeSequence *)

STAGES == <<"fetch", "decode", "execute", "retire">>

\* an array argument, or some value for which Array.isArray is false
ArrayOf(items) == [isArray |-> TRUE, items |-> items]

NotArray == [isArray |-> FALSE, items |-> <<>>]

\* a string label with its text
Label(text) == [typeof |-> "string", text |-> text]

Instruction(text, speculative) ==
  [label |-> Label(text), speculative |-> Bool(speculative)]

\* buildSpeculativeSequence marking the path of a taken branch
buildSpeculativeSequence_TakenPath(branchTaken) ==
  << Instruction("branch", FALSE),
     Instruction(IF branchTaken THEN "target load" ELSE "fallthrough", branchTaken),
     Instruction("dependent read", branchTaken),
     Instruction("retire", FALSE) >>

\* buildSpeculativeSequence(branchTaken)
buildSpeculativeSequence(branchTaken) ==
  << Instruction("branch", FALSE),
     Instruction(IF branchTaken THEN "target load" ELSE "fallthrough", ~branchTaken),
     Instruction("dependent read", ~branchTaken),
     Instruction("retire", FALSE) >>

\* the shape test applied to every instruction
InstructionMalformed(instruction) ==
  instruction.label.typeof # "string" \/ instruction.speculative.typeof # "boolean"

\* Pipeline.simulate that validates only the instructions it renders
Pipeline_simulate_FirstFour(instructions, mispredict) ==
  IF ~instructions.isArray
  THEN [threw |-> TRUE, error |-> "expects an array of instructions", result |-> <<>>]
  ELSE IF \E i \in DOMAIN instructions.items :
            i <= Len(STAGES) /\ InstructionMalformed(instructions.items[i])
  THEN [threw |-> TRUE, error |-> "must include a label and speculative flag",
        result |-> <<>>]
  ELSE [threw |-> FALSE, error |-> "",
        result |->
          [index \in DOMAIN STAGES |->
             [stage |-> STAGES[index],
              instructions |->
                IF index <= Len(instructions.items)
                THEN << [instructions.items[index] EXCEPT
                           !.speculative =
                             Bool(mispredict /\ instructions.items[index].speculative.val = 1)] >>
                ELSE <<>>]]]

\* Pipeline.simulate(instructions, mispredict)
Pipeline_simulate(instructions, mispredict) ==
  IF ~instructions.isArray
  THEN [threw |-> TRUE, error |-> "expects an array of instructions", result |-> <<>>]
  ELSE IF \E i \in DOMAIN instructions.items : InstructionMalformed(instructions.items[i])
  THEN [threw |-> TRUE, error |-> "must include a label and speculative flag",
        result |-> <<>>]
  ELSE [threw |-> FALSE, error |-> "",
        result |->
          [index \in DOMAIN STAGES |->
             [stage |-> STAGES[index],
              instructions |->
                IF index <= Len(instructions.items)
                THEN << [instructions.items[index] EXCEPT
                           !.speculative =
                             Bool(mispredict /\ instructions.items[index].speculative.val = 1)] >>
                ELSE <<>>]]]

-----------------------------------------------------------------------------
(* js/attack.js: AttackSimulator *)

Pattern(name, training, trigger) ==
  [isNull |-> FALSE, name |-> name, training |-> training, trigger |-> trigger]

\* a null or undefined pattern argument
NullPattern ==
  [isNull |-> TRUE, name |-> Undefined, training |-> NotArray, trigger |-> Undefined]

\* AttackSimulator._validatePattern: "" when it passes
AttackSimulator_validatePattern(pattern) ==
  IF pattern.isNull \/ pattern.name.typeof # "string"
  THEN "Pattern must include a name"
  ELSE IF \/ ~pattern.training.isArray
          \/ \E i \in DOMAIN pattern.training.items :
               pattern.training.items[i].typeof # "boolean"
  THEN "Pattern.training must be an array of booleans"
  ELSE IF pattern.trigger.typeof # "boolean"
  THEN "Pattern.trigger must be a boolean"
  ELSE ""

\* _selectAddresses taking two addresses fewer than asked for
AttackSimulator_selectAddresses_WithoutMargin(count, defenceState) ==
  DefenceToolkit_applyFence(Slice0(MOCK_MEMORY, count - 2), defenceState)

\* AttackSimulator._selectAddresses(count, defenceState)
AttackSimulator_selectAddresses(count, defenceState) ==
  DefenceToolkit_applyFence(Slice0(MOCK_MEMORY, count), defenceState)

\* the training answered from the counter as it was before the first outcome
PredictAll_Unthreaded(p, outcomes, lo, hi) ==
  [predictor |-> IF lo > hi THEN p
                 ELSE BranchPredictor_predict(p, outcomes[hi]).predictor,
   predictions |-> [i \in 1..(hi - lo + 1) |-> p.counter >= p.threshold]]

RECURSIVE PredictAll(_, _, _, _)
\* pattern.training.map(outcome => this.predictor.predict(outcome)) over
\* outcomes[lo..hi], in index order
PredictAll(p, outcomes, lo, hi) ==
  IF lo > hi THEN [predictor |-> p, predictions |-> <<>>]
  ELSE IF lo = hi
  THEN The({ [predictor |-> r.predictor, predictions |-> <<r.prediction>>]
             : r \in {BranchPredictor_predict(p, outcomes[lo])} })
  ELSE The({ The({ [predictor |-> upper.predictor,
                    predictions |-> lower.predictions \o upper.predictions]
                   : upper \in {PredictAll(lower.predictor, outcomes,
                                           (lo + hi) \div 2 + 1, hi)} })
             : lower \in {PredictAll(p, outcomes, lo, (lo + hi) \div 2)} })

RECURSIVE SumLatency(_, _)
\* probeResults.reduce((sum, p) => sum + p.latency, 0) over the first n results
SumLatency(results, n) ==
  IF n = 0 THEN 0 ELSE SumLatency(results, n - 1) + results[n].latency

\* sum / probeResults.length as a timing; 0 / 0 is NaN
MeanLatency(results) ==
  IF Len(results) = 0 THEN NaN
  ELSE Num((SumLatency(results, Len(results)) * Scale) \div Len(results))

NoDetection == [isNull |-> TRUE, finite |-> TRUE,
                avg |-> [num |-> 0, den |-> 1], variance |-> [num |-> 0, den |-> 1],
                suspicious |-> FALSE]

Detection(d) == [isNull |-> FALSE, finite |-> d.finite, avg |-> d.avg,
                 variance |-> d.variance, suspicious |-> d.suspicious]

NoResult == [summary |-> "", primeResults |-> <<>>, trainingResults |-> <<>>,
             mispredict |-> FALSE,
             speculativeAccess |-> [level |-> "", hit |-> FALSE, latency |-> 0],
             probeResults |-> <<>>, measurements |-> <<>>, detection |-> NoDetection]

\* the outcome of a run that threw with the simulator in state (c, p, t)
Rejected(c, p, t, error) ==
  [cache |-> c, predictor |-> p, toolkit |-> t, threw |-> TRUE, error |-> error,
   result |-> NoResult, rendered |-> <<>>, logged |-> FALSE, draws |-> 0]

\* the three renderer calls of a completed run, in call order
RenderCalls(pipelineView, snapshot, measurements, detection) ==
  << [method |-> "renderPipeline", pipelineView |-> pipelineView],
     [method |-> "renderCache", snapshot |-> snapshot],
     [method |-> "renderTimings", measurements |-> measurements,
      detection |-> detection] >>

\* AttackSimulator.run from the timing synthesis on (lines 68-95); the cache
\* and predictor have their final values c and p, steps holds what the
\* earlier statements of the run produced
AttackSimulator_runTimings(c, p, t, defenceState, steps, tape) ==
  LET mispredict == steps.mispredict
      primeResults == steps.primeResults
      trainingResults == steps.trainingResults
      speculativeAccess == steps.speculativeAccess
      probeResults == steps.probeResults
      pipelineView == steps.pipelineView
      jitter == IF defenceState.jitter THEN 8 ELSE 0
      baseTiming ==
        << Entry("prime", artificialDelay(T(60), jitter, tape[1])),
           Entry("speculate",
                 artificialDelay(T(speculativeAccess.latency * 2), jitter, tape[2])),
           Entry("probe", artificialDelay(MeanLatency(probeResults), jitter, tape[3])) >>
      timings ==
        IF defenceState.constantTime
        THEN DefenceToolkit_applyConstantTime(baseTiming)
        ELSE DefenceToolkit_applyDefences(baseTiming, mispredict, defenceState,
                                          <<tape[4], tape[5], tape[6]>>)
      clamped ==
        IF defenceState.clampTimers
        THEN DefenceToolkit_clampTiming(timings.result)
        ELSE [threw |-> FALSE, error |-> "", result |-> timings.result]
      measurements == clamped.result
      detected ==
        IF defenceState.detection
        THEN DefenceToolkit_detectAnomaly(measurements)
        ELSE [threw |-> FALSE, error |-> ""]
      detection ==
        IF defenceState.detection THEN Detection(detected) ELSE NoDetection
      draws == IF ~defenceState.jitter THEN 0
               ELSE IF defenceState.constantTime THEN 3 ELSE 6
  IN IF timings.threw THEN Rejected(c, p, t, timings.error)
     ELSE IF clamped.threw THEN Rejected(c, p, t, clamped.error)
     ELSE IF detected.threw THEN Rejected(c, p, t, detected.error)
     ELSE [cache |-> c, predictor |-> p, toolkit |-> t, threw |-> FALSE, error |-> "",
           result |->
             [summary |-> IF mispredict THEN "Speculative path observed"
                          ELSE "No speculation observed",
              primeResults |-> primeResults,
              trainingResults |-> trainingResults,
              mispredict |-> mispredict,
              speculativeAccess |-> speculativeAccess,
              probeResults |-> probeResults,
              measurements |-> measurements,
              detection |-> detection],
           rendered |-> RenderCalls(pipelineView, CacheModel_snapshot(c),
                                    measurements, detection),
           logged |-> TRUE,
           draws |-> draws]

\* a body of run with an await after the training predictions
RunSuspensionPoints_AfterTraining == {"training"}

\* the statements of the body of run that are followed by an await, at
\* which a call would hand control back before going on: there is none
RunSuspensionPoints == {}

\* AttackSimulator.run after validation up to the training (lines 56-59);
\* locals holds the constants of the call the later statements read
AttackSimulator_runStart(c, p, t, pattern, defended) ==
  LET got == DefenceToolkit_getState(t, defended)
      defenceState == got.result
      t1 == got.toolkit
      selected ==
        AttackSimulator_selectAddresses(Len(pattern.training.items) + 2, defenceState)
      addresses == selected.result
      primed == CacheModel_prime(c, addresses)
      trained == PredictAll(p, pattern.training.items, 1,
                            Len(pattern.training.items))
      failed == selected.threw \/ primed.threw
  IN [threw |-> failed,
      error |-> IF selected.threw THEN selected.error ELSE primed.error,
      cache |-> IF selected.threw THEN c ELSE primed.cache,
      predictor |-> IF failed THEN p ELSE trained.predictor,
      toolkit |-> t1,
      locals |-> [pattern |-> pattern,
                  defenceState |-> defenceState,
                  addresses |-> IF selected.threw THEN <<>> ELSE addresses,
                  primeResults |-> IF failed THEN <<>> ELSE primed.results,
                  trainingResults |-> IF failed THEN <<>> ELSE trained.predictions]]

\* AttackSimulator.run from the trigger prediction on (lines 60-95), with the
\* cache and the predictor as they are when the statement is reached
AttackSimulator_runResume(c, p, t1, locals, tape) ==
  LET pattern == locals.pattern
      defenceState == locals.defenceState
      addresses == locals.addresses
      triggered == BranchPredictor_predict(p, pattern.trigger)
      trigger == pattern.trigger.val = 1
      mispredict == triggered.prediction # trigger
      speculativeSeq == buildSpeculativeSequence(trigger)
      pipeline == Pipeline_simulate(ArrayOf(speculativeSeq),
                                    mispredict /\ ~defenceState.fence)
      first == IF Len(addresses) > 0 THEN addresses[1] ELSE Undefined
      speculative == CacheModel_access(c, first)
      probed == CacheModel_probe(speculative.cache, Slice0(addresses, 4))
  IN IF pipeline.threw
     THEN Rejected(c, triggered.predictor, t1, pipeline.error)
     ELSE IF speculative.threw
     THEN Rejected(speculative.cache, triggered.predictor, t1, speculative.error)
     ELSE IF probed.threw
     THEN Rejected(probed.cache, triggered.predictor, t1, probed.error)
     ELSE AttackSimulator_runTimings(
            probed.cache, triggered.predictor, t1, defenceState,
            [mispredict |-> mispredict, primeResults |-> locals.primeResults,
             trainingResults |-> locals.trainingResults,
             speculativeAccess |-> speculative.result,
             probeResults |-> probed.results, pipelineView |-> pipeline.result],
            tape)

\* AttackSimulator.run after validation (lines 56-95)
AttackSimulator_runBody(c, p, t, pattern, defended, tape) ==
  The({ IF start.threw
        THEN Rejected(start.cache, start.predictor, start.toolkit, start.error)
        ELSE AttackSimulator_runResume(start.cache, start.predictor, start.toolkit,
                                       start.locals, tape)
        : start \in {AttackSimulator_runStart(c, p, t, pattern, defended)} })

\* lines 51-54 of AttackSimulator.run(pattern, defended = false): the message
\* of the error the arguments are refused with, "" when they pass
AttackSimulator_argumentError(pattern, defendedArg) ==
  LET defended == IF defendedArg.typeof = "undefined" THEN Bool(FALSE)
                  ELSE defendedArg
      patternError == AttackSimulator_validatePattern(pattern)
  IN IF patternError # "" THEN patternError
     ELSE IF defended.typeof # "boolean" THEN "defended flag must be boolean"
     ELSE ""

\* run testing the defended flag only after the cache has been primed
AttackSimulator_run_LateFlagCheck(c, p, t, pattern, defendedArg, tape) ==
  LET defended == IF defendedArg.typeof = "undefined" THEN Bool(FALSE)
                  ELSE defendedArg
      patternError == AttackSimulator_validatePattern(pattern)
      primed == CacheModel_prime(
                  c, Slice0(MOCK_MEMORY, Len(pattern.training.items) + 2))
  IN IF patternError # "" THEN Rejected(c, p, t, patternError)
     ELSE IF defended.typeof # "boolean"
     THEN Rejected(primed.cache, p, t, "defended flag must be boolean")
     ELSE AttackSimulator_runBody(c, p, t, pattern, defended, tape)

\* AttackSimulator.run(pattern, defended = false); tape holds the values the
\* successive Math.random() calls return
AttackSimulator_run(c, p, t, pattern, defendedArg, tape) ==
  LET defended == IF defendedArg.typeof = "undefined" THEN Bool(FALSE)
                  ELSE defendedArg
      argumentError == AttackSimulator_argumentError(pattern, defendedArg)
  IN IF argumentError # "" THEN Rejected(c, p, t, argumentError)
     ELSE AttackSimulator_runBody(c, p, t, pattern, defended, tape)

-----------------------------------------------------------------------------
(* Inputs of the direct cache calls *)

InvalidAddresses == {NaN, Str(7), Undefined, Bool(TRUE)}

AccessInputs ==
  {MOCK_MEMORY[i] : i \in 1..MaxAccessAddr} \cup {PosInfinity, NegInfinity}
    \cup InvalidAddresses

\* prefixes of the pool: empty, within L1, one past L1, past L2
PrimeInputs == {Slice0(MOCK_MEMORY, n) : n \in {0, 4, L1Size + 1, MaxPrime}}

ProbeInputs == {Slice0(MOCK_MEMORY, n) : n \in {0, 4}}

NoCall == [op |-> "none"]

-----------------------------------------------------------------------------
(* State machine of a CacheModel driven directly *)

Init ==
  /\ cache = CacheModel
  /\ predictor = BranchPredictor
  /\ toolkit = DefenceToolkit
  /\ last = NoCall
  /\ calls = 0

\* cache.access(address)
Access(address) ==
  /\ calls < MaxCacheCalls
  /\ \E r \in {CacheModel_access(cache, address)} :
       /\ calls' = calls + 1
       /\ cache' = r.cache
       /\ last' = [op |-> "access", address |-> address, threw |-> r.threw,
                   error |-> r.error, result |-> r.result]
       /\ UNCHANGED <<predictor, toolkit>>

\* cache.prime(addresses)
Prime(addresses) ==
  /\ calls < MaxCacheCalls
  /\ \E r \in {CacheModel_prime(cache, addresses)} :
       /\ calls' = calls + 1
       /\ cache' = r.cache
       /\ last' = [op |-> "prime", addresses |-> addresses, threw |-> r.threw,
                   error |-> r.error, results |-> r.results]
       /\ UNCHANGED <<predictor, toolkit>>

\* cache.probe(addresses)
Probe(addresses) ==
  /\ calls < MaxCacheCalls
  /\ \E r \in {CacheModel_probe(cache, addresses)} :
       /\ calls' = calls + 1
       /\ cache' = r.cache
       /\ last' = [op |-> "probe", addresses |-> addresses, threw |-> r.threw,
                   error |-> r.error, results |-> r.results]
       /\ UNCHANGED <<predictor, toolkit>>

CacheAccess == \E address \in AccessInputs : Access(address)

CachePrime == \E addresses \in PrimeInputs : Prime(addresses)

CacheProbe == \E addresses \in ProbeInputs : Probe(addresses)

NextCache == CacheAccess \/ CachePrime \/ CacheProbe

SpecCache == Init /\ [][NextCache]_vars

-----------------------------------------------------------------------------
(* Inputs of the simulator calls *)

\* n copies of the boolean b
Repeat(b, n) == [i \in 1..n |-> Bool(b)]

\* ATTACK_PATTERNS.branchTrain; the name has 25 characters
branchTrain == Pattern(Str(25), ArrayOf(Repeat(TRUE, 4)), Bool(FALSE))

ValidPatterns ==
  { branchTrain,
    Pattern(Str(5), ArrayOf(<<>>), Bool(TRUE)),
    Pattern(Str(5), ArrayOf(<<Bool(FALSE), Bool(FALSE)>>), Bool(TRUE)),
    Pattern(Str(0), ArrayOf(<<Bool(FALSE)>>), Bool(FALSE)),
    Pattern(Str(5), ArrayOf(Repeat(TRUE, 7)), Bool(TRUE)),
    Pattern(Str(5), ArrayOf(Repeat(TRUE, MaxTraining)), Bool(FALSE)) }

MalformedPatterns ==
  { NullPattern,
    Pattern(Num(1), ArrayOf(<<Bool(TRUE)>>), Bool(TRUE)),
    Pattern(Str(4), NotArray, Bool(TRUE)),
    Pattern(Str(4), ArrayOf(<<Bool(TRUE), Num(1)>>), Bool(TRUE)),
    Pattern(Str(4), ArrayOf(<<Bool(TRUE)>>), Str(4)) }

\* the <<pattern, defended>> argument pairs of run that pass validation
AcceptedRunInputs == ValidPatterns \X {Bool(TRUE), Bool(FALSE)}

\* argument pairs that run rejects, and the defaulted second argument
OtherRunInputs ==
  (MalformedPatterns \X {Bool(TRUE)})
    \cup ({branchTrain} \X {Undefined, Str(3), Num(1)})

\* values Math.random() returns, as multiples of 1 / RandomDen
RandomSamples == {0, 16, 39}

\* the values of six successive Math.random() calls
RandomTapes ==
  {[i \in 1..6 |-> sample] : sample \in RandomSamples}
    \cup { <<0, 39, 16, 39, 0, 16>> }

\* three random sources: the first two give the same first three values,
\* the third differs from both at once
DrawTapes ==
  << <<0, 0, 0, 0, 0, 0>>, <<0, 0, 0, 39, 16, 39>>, <<39, 16, 0, 0, 39, 16>> >>

\* a run draws only when the active state has jitter on
TapesFor(defendedArg) ==
  IF toolkit.state.jitter /\ ToBoolean(defendedArg) THEN RandomTapes
  ELSE {[i \in 1..6 |-> 0]}

BooleanInputs == {Bool(TRUE), Bool(FALSE)}

ToggleInputs == BooleanInputs \cup {Str(4), Num(1), Undefined}

GetStateInputs == {Bool(TRUE), Bool(FALSE), Undefined}

PredictInputs == BooleanInputs \cup {Str(3), Undefined}

-----------------------------------------------------------------------------
(* State machine of an AttackSimulator, its toolkit and its predictor *)

\* simulator.run(pattern, defended) on an argument pair of inputs; at most
\* budget calls get past validation
RunWithin(inputs, budget) ==
  \E input \in inputs : \E tape \in TapesFor(input[2]) :
    /\ calls < budget \/ AttackSimulator_argumentError(input[1], input[2]) # ""
    /\ \E r \in {AttackSimulator_run(cache, predictor, toolkit,
                                     input[1], input[2], tape)} :
         LET mutated == r.cache # cache \/ r.predictor # predictor \/ ~r.threw
         IN /\ mutated => calls < budget
            /\ calls' = IF mutated THEN calls + 1 ELSE calls
            /\ cache' = r.cache
            /\ predictor' = r.predictor
            /\ toolkit' = r.toolkit
            /\ last' = [op |-> "run", pattern |-> input[1], defended |-> input[2],
                        threw |-> r.threw, error |-> r.error, result |-> r.result,
                        rendered |-> r.rendered, logged |-> r.logged,
                        draws |-> r.draws]

Run == calls < MaxRuns /\ RunWithin(AcceptedRunInputs, MaxRuns)

\* predictor.predict(outcome) on an outcome of inputs, at most budget times
PredictWithin(inputs, budget) ==
  /\ calls < budget
  /\ \E outcome \in inputs :
       \E r \in {BranchPredictor_predict(predictor, outcome)} :
         /\ calls' = calls + 1
         /\ predictor' = r.predictor
         /\ last' = [op |-> "predict", outcome |-> outcome, threw |-> FALSE,
                     prediction |-> r.prediction, warned |-> r.warned,
                     confidence |-> BranchPredictor_getConfidence(r.predictor)]
         /\ UNCHANGED <<cache, toolkit>>

Predict == PredictWithin(BooleanInputs, MaxRuns)

\* the effect of a setter call on the state machine
SetterCall(name, r, value) ==
  /\ toolkit' = r.toolkit
  /\ last' = [op |-> name, value |-> value, threw |-> r.threw, error |-> r.error]
  /\ UNCHANGED <<cache, predictor, calls>>

SetConstantTimeFrom(values) ==
  \E value \in values :
    SetterCall("setConstantTime", DefenceToolkit_setConstantTime(toolkit, value), value)

SetJitterFrom(values) ==
  \E value \in values :
    SetterCall("setJitter", DefenceToolkit_setJitter(toolkit, value), value)

SetFenceFrom(values) ==
  \E value \in values :
    SetterCall("setFence", DefenceToolkit_setFence(toolkit, value), value)

SetClampTimersFrom(values) ==
  \E value \in values :
    SetterCall("setClampTimers", DefenceToolkit_setClampTimers(toolkit, value), value)

SetDetectionFrom(values) ==
  \E value \in values :
    SetterCall("setDetection", DefenceToolkit_setDetection(toolkit, value), value)

SetConstantTime == SetConstantTimeFrom(BooleanInputs)

SetJitter == SetJitterFrom(BooleanInputs)

SetFence == SetFenceFrom(BooleanInputs)

SetClampTimers == SetClampTimersFrom(BooleanInputs)

SetDetection == SetDetectionFrom(BooleanInputs)

\* an AttackSimulator run repeatedly while the UI toggles its toolkit and
\* the predictor is also driven directly
Next ==
  \/ Run
  \/ Predict
  \/ SetConstantTime
  \/ SetJitter
  \/ SetFence
  \/ SetClampTimers
  \/ SetDetection

Spec == Init /\ [][Next]_vars

\* a predictor driven directly, with any argument
PredictDirect == PredictWithin(PredictInputs, MaxPredicts)

NextPredictor == PredictDirect

SpecPredictor == Init /\ [][NextPredictor]_vars

\* a toolkit driven directly: setters with any argument, and getState
ToolkitSetConstantTime == SetConstantTimeFrom(ToggleInputs)

ToolkitSetJitter == SetJitterFrom(ToggleInputs)

ToolkitSetFence == SetFenceFrom(ToggleInputs)

ToolkitSetClampTimers == SetClampTimersFrom(ToggleInputs)

ToolkitSetDetection == SetDetectionFrom(ToggleInputs)

\* defence.getState(defended)
ToolkitGetState ==
  \E defended \in GetStateInputs :
    \E r \in {DefenceToolkit_getState(toolkit, defended)} :
       /\ toolkit' = r.toolkit
       /\ last' = [op |-> "getState", defended |-> defended, threw |-> FALSE,
                   result |-> r.result]
       /\ UNCHANGED <<cache, predictor, calls>>

NextToolkit ==
  \/ ToolkitSetConstantTime
  \/ ToolkitSetJitter
  \/ ToolkitSetFence
  \/ ToolkitSetClampTimers
  \/ ToolkitSetDetection
  \/ ToolkitGetState

SpecToolkit == Init /\ [][NextToolkit]_vars

-----------------------------------------------------------------------------
(* An AttackSimulator called with any arguments, between toggle changes *)

\* simulator.run(pattern, defended) with arguments run accepts or rejects
RunAny == RunWithin(AcceptedRunInputs \cup OtherRunInputs, MaxAnyRuns)

NextCalls ==
  \/ RunAny
  \/ SetConstantTime
  \/ SetJitter
  \/ SetFence
  \/ SetClampTimers
  \/ SetDetection

SpecCalls == Init /\ [][NextCalls]_vars

-----------------------------------------------------------------------------
(* The toolkit's timing transformations applied to a timing record *)

\* the key of entry i of a record: the record of a run, or one with no
\* speculate entry
RunKeys == <<"prime", "speculate", "probe", "extra">>

PlainKeys == <<"a", "b", "c", "d">>

\* 12.5 and -7.5 lie halfway between two multiples of 5
TimingValues ==
  {T(10), T(30), T(40), T(400), Num((25 * Scale) \div 2), Num(-((15 * Scale) \div 2)),
   PosInfinity, NaN}

\* the records of at most MaxEntries entries over TimingValues
TimingRecords ==
  UNION { { [i \in 1..n |-> Entry(keys[i], values[i])]
            : values \in [1..n -> TimingValues] }
          : n \in 0..MaxEntries, keys \in {RunKeys, PlainKeys} }

InitTimings ==
  /\ cache = CacheModel
  /\ predictor = BranchPredictor
  /\ toolkit = DefenceToolkit
  /\ calls = 0
  /\ last \in {[op |-> "timings", timings |-> timings] : timings \in TimingRecords}

\* the effect of a transformation of last.timings whose outcome is r
TimingCall(name, r) ==
  /\ last' = [op |-> name, timings |-> last.timings, threw |-> r.threw,
              error |-> r.error, result |-> r.result]
  /\ UNCHANGED <<cache, predictor, toolkit, calls>>

\* defence.applyConstantTime(timings)
ApplyConstantTime ==
  /\ last.op = "timings"
  /\ TimingCall("applyConstantTime", DefenceToolkit_applyConstantTime(last.timings))

\* defence.applyDefences(timings, mispredict, state); every _jitter() call
\* of one application draws the same sample
ApplyDefences ==
  /\ last.op = "timings"
  /\ \E mispredict \in BOOLEAN, jitter \in BOOLEAN, fence \in BOOLEAN :
       \E sample \in IF jitter THEN RandomSamples ELSE {0} :
         \E state \in {[toolkit.state EXCEPT !.jitter = jitter, !.fence = fence]} :
           \E r \in {DefenceToolkit_applyDefences(
                       last.timings, mispredict, state,
                       [i \in DOMAIN last.timings |-> sample])} :
             /\ last' = [op |-> "applyDefences", timings |-> last.timings,
                         mispredict |-> mispredict, state |-> state,
                         sample |-> sample, threw |-> r.threw,
                         error |-> r.error, result |-> r.result]
             /\ UNCHANGED <<cache, predictor, toolkit, calls>>

\* defence.clampTiming(timings)
ClampTiming ==
  /\ last.op = "timings"
  /\ TimingCall("clampTiming", DefenceToolkit_clampTiming(last.timings))

NextTimings ==
  \/ ApplyConstantTime
  \/ ApplyDefences
  \/ ClampTiming

SpecTimings == InitTimings /\ [][NextTimings]_vars

-----------------------------------------------------------------------------
(* Pipeline.simulate applied to an instruction array *)

\* instruction?.label and instruction?.speculative of a null entry
NullInstruction ==
  [label |-> [typeof |-> "undefined", text |-> ""], speculative |-> Undefined]

\* two well-formed instructions, a null entry, a numeric label and a
\* speculative flag given as a string
InstructionValues ==
  { Instruction("load", TRUE),
    Instruction("add", FALSE),
    NullInstruction,
    [label |-> [typeof |-> "number", text |-> ""], speculative |-> Bool(TRUE)],
    [label |-> Label("load"), speculative |-> Str(4)] }

\* a value that is no array, and the arrays of at most MaxInstructions entries
InstructionArrays ==
  {NotArray} \cup
  UNION { { ArrayOf(items) : items \in [1..n -> InstructionValues] }
          : n \in 0..MaxInstructions }

InitPipeline ==
  /\ cache = CacheModel
  /\ predictor = BranchPredictor
  /\ toolkit = DefenceToolkit
  /\ calls = 0
  /\ last \in {[op |-> "instructions", instructions |-> instructions]
                 : instructions \in InstructionArrays}

\* pipeline.simulate(last.instructions, mispredict)
Simulate ==
  /\ last.op = "instructions"
  /\ \E mispredict \in BOOLEAN :
       \E r \in {Pipeline_simulate(last.instructions, mispredict)} :
         last' = [op |-> "simulate", instructions |-> last.instructions,
                  mispredict |-> mispredict, threw |-> r.threw,
                  error |-> r.error, result |-> r.result]
  /\ UNCHANGED <<cache, predictor, toolkit, calls>>

NextPipeline == Simulate

SpecPipeline == InitPipeline /\ [][NextPipeline]_vars

-----------------------------------------------------------------------------
(* run calls issued on one simulator without awaiting one another.  A call  *)
(* executes the body of run up to its first suspension point, or to its end; *)
(* the continuations run later, oldest first.                                *)

\* the part of run(pattern, defended) executed by the call itself: outcome is
\* the simulator it leaves and, unless suspended, what the promise settles
\* with; locals is what a suspended call has computed so far
AttackSimulator_runUntilSuspended(c, p, t, pattern, defendedArg, tape) ==
  IF AttackSimulator_argumentError(pattern, defendedArg) # ""
  THEN [suspended |-> FALSE, locals |-> <<>>,
        outcome |-> AttackSimulator_run(c, p, t, pattern, defendedArg, tape)]
  ELSE The({ IF start.threw
             THEN [suspended |-> FALSE, locals |-> <<>>,
                   outcome |-> Rejected(start.cache, start.predictor, start.toolkit,
                                        start.error)]
             ELSE IF "training" \in RunSuspensionPoints
             THEN [suspended |-> TRUE, locals |-> start.locals,
                   outcome |-> Rejected(start.cache, start.predictor, start.toolkit, "")]
             ELSE [suspended |-> FALSE, locals |-> <<>>,
                   outcome |-> AttackSimulator_runResume(
                                 start.cache, start.predictor, start.toolkit,
                                 start.locals, tape)]
             : start \in {AttackSimulator_runStart(
                            c, p, t, pattern,
                            IF defendedArg.typeof = "undefined" THEN Bool(FALSE)
                            ELSE defendedArg)} })

\* short patterns defended or not, and a call that is refused
AsyncRunInputs ==
  ({pattern \in ValidPatterns : Len(pattern.training.items) <= 4} \X BooleanInputs)
    \cup {<<NullPattern, Bool(TRUE)>>}

InitAsync ==
  /\ cache = CacheModel
  /\ predictor = BranchPredictor
  /\ toolkit = DefenceToolkit
  /\ calls = 0
  /\ last = [op |-> "async", issued |-> <<>>, promises |-> <<>>, settled |-> 0]

\* simulator.run(pattern, defended) called and not awaited
Call ==
  /\ calls < MaxAsyncCalls
  /\ \E input \in AsyncRunInputs :
       \E tape \in IF input[2] = Bool(TRUE) /\ toolkit.state.jitter
                   THEN {DrawTapes[1], DrawTapes[3]} ELSE {DrawTapes[1]} :
         \E promise \in {AttackSimulator_runUntilSuspended(
                           cache, predictor, toolkit, input[1], input[2], tape)} :
           /\ cache' = promise.outcome.cache
           /\ predictor' = promise.outcome.predictor
           /\ toolkit' = promise.outcome.toolkit
           /\ calls' = calls + 1
           /\ last' = [last EXCEPT
                         !.op = "call",
                         !.issued = Append(@, [pattern |-> input[1],
                                               defended |-> input[2], tape |-> tape]),
                         !.promises = Append(@, promise)]

\* the oldest unsettled promise settles: a suspended call first runs the rest
\* of its body on the cache and predictor as they are now
Settle ==
  /\ last.settled < Len(last.promises)
  /\ LET index == last.settled + 1
         promise == last.promises[index]
     IN IF promise.suspended
        THEN \E r \in {AttackSimulator_runResume(cache, predictor, toolkit,
                                                 promise.locals,
                                                 last.issued[index].tape)} :
               /\ cache' = r.cache
               /\ predictor' = r.predictor
               /\ toolkit' = r.toolkit
               /\ last' = [last EXCEPT
                             !.op = "settle", !.settled = index,
                             !.promises[index] =
                               [suspended |-> FALSE, locals |-> <<>>, outcome |-> r]]
        ELSE /\ last' = [last EXCEPT !.op = "settle", !.settled = index]
             /\ UNCHANGED <<cache, predictor, toolkit>>
  /\ UNCHANGED calls

NextAsync ==
  \/ Call
  \/ Settle

SpecAsync == InitAsync /\ [][NextAsync]_vars

-----------------------------------------------------------------------------
(* Properties of the cache hierarchy *)

L1Lines(c) == c.levels[1].lines

L2Lines(c) == c.levels[2].lines

ResidentNowhere(c, address) ==
  ~MapHas(L1Lines(c), address) /\ ~MapHas(L2Lines(c), address)

\* a number that is not NaN
ValidNumeric(v) == v.typeof = "number" /\ v.kind # "nan"

\* the step is a cache.access(address) call that returned
AccessReturned == last'.op = "access" /\ ~last'.threw

\* lines with address appended, the oldest entry dropped first when at capacity
FifoInserted(lines, capacity, address) ==
  IF Len(lines) < capacity THEN lines \o <<address>>
  ELSE SubSeq(lines, 2, Len(lines)) \o <<address>>

NoDuplicates(lines) ==
  \A i, j \in DOMAIN lines : lines[i] = lines[j] => i = j

\* C1: an access to a valid numeric address resident in no level returns
\* {memory, miss, 42}, and an access to the same address that directly follows
\* a miss returns hit = true.
C1_FreshMissThenHit ==
  [][ /\ (AccessReturned /\ ValidNumeric(last'.address)
            /\ ResidentNowhere(cache, last'.address))
         => last'.result = [level |-> "memory", hit |-> FALSE, latency |-> 42]
      /\ (AccessReturned /\ last.op = "access" /\ ~last.threw
            /\ ~last.result.hit /\ last'.address = last.address)
         => last'.result.hit
    ]_vars

\* a fresh address has just missed and a repeat of the access would hit
C1_Witness ==
  /\ last.op = "access" /\ ~last.threw
  /\ last.result = [level |-> "memory", hit |-> FALSE, latency |-> 42]
  /\ CacheModel_access(cache, last.address).result.hit

C4_BoundedFifo ==
  [][ /\ Len(L1Lines(cache')) <= 8 /\ Len(L2Lines(cache')) <= 16
      /\ NoDuplicates(L1Lines(cache')) /\ NoDuplicates(L2Lines(cache'))
      /\ \A i \in {1, 2} :
           /\ Len(CacheModel_snapshot(cache')[i].lines) = Len(cache'.levels[i].lines)
           /\ \A k \in DOMAIN cache'.levels[i].lines :
                CacheModel_snapshot(cache')[i].lines[k].address
                  = cache'.levels[i].lines[k]
      /\ last'.op = "access" =>
           \A i \in {1, 2} :
             LET old == cache.levels[i].lines
                 new == cache'.levels[i].lines
             IN \/ new = old
                \/ /\ ~MapHas(old, last'.address)
                   /\ new = FifoInserted(old, cache.levels[i].size, last'.address)
      /\ (last'.op = "access" /\ ~last'.threw /\ last'.result.level = "L1")
           => L1Lines(cache') = L1Lines(cache)
    ]_vars

\* an access evicted from a full L1 the line that was its oldest, although
\* that line is still resident in L2
C4_Witness ==
  /\ last.op = "access" /\ ~last.threw /\ ~MapHas(L1Lines(cache), Num(0))
  /\ MapHas(L2Lines(cache), Num(0))
  /\ Len(L1Lines(cache)) = L1Size
  /\ L1Lines(cache)[L1Size] = last.address

\* C5: an access with a non-numeric or NaN address fails with an
\* invalid-address error and leaves every level as it was.
C5_InvalidAddressRejected ==
  [][ (last'.op = "access"
         /\ (last'.address.typeof # "number" \/ last'.address.kind = "nan"))
      => /\ last'.threw
         /\ last'.error = "invalid address"
         /\ cache' = cache
    ]_vars

\* an invalid address was rejected while the cache held lines
C5_Witness ==
  /\ last.op = "access" /\ last.threw
  /\ last.address \in {NaN, Str(7)}
  /\ Len(L1Lines(cache)) > 0

\* C6: for a valid address the result names the first level, L1 then L2, that
\* held the address before the call, else memory.
C6_FirstHoldingLevel ==
  [][ (last'.op = "access" /\ ValidNumeric(last'.address))
      => /\ ~last'.threw
         /\ last'.result =
              IF MapHas(L1Lines(cache), last'.address)
              THEN [level |-> "L1", hit |-> TRUE, latency |-> 8]
              ELSE IF MapHas(L2Lines(cache), last'.address)
              THEN [level |-> "L2", hit |-> TRUE, latency |-> 16]
              ELSE [level |-> "memory", hit |-> FALSE, latency |-> 42]
    ]_vars

\* all three outcomes occur: here the L2 one
C6_Witness ==
  /\ last.op = "access" /\ ~last.threw
  /\ last.result = [level |-> "L2", hit |-> TRUE, latency |-> 16]
  /\ MapHas(L1Lines(cache), last.address)
  /\ MapHas(L2Lines(cache), last.address)

\* C31: an access with a numeric but non-finite address, Infinity or
\* -Infinity, fails with an invalid-address error like NaN or a non-number
\* does, and leaves every level as it was.
C31_NonFiniteAddressRejected ==
  [][ (last'.op = "access"
         /\ last'.address.typeof = "number" /\ last'.address.kind = "inf")
      => /\ last'.threw
         /\ last'.error = "invalid address"
         /\ cache' = cache
    ]_vars

-----------------------------------------------------------------------------
(* Properties of the branch predictor *)

AllTaken(history) == \A i \in DOMAIN history : history[i]

\* C7: whatever predict calls were made, directly or by runs, the counter is
\* an integer from 0 to 3 and the confidence counter / 3 lies in [0, 1].
C7_CounterAndConfidenceBounded ==
  LET confidence == BranchPredictor_getConfidence(predictor)
  IN /\ predictor.counter \in 0..3
     /\ confidence.den > 0
     /\ 0 <= confidence.num
     /\ confidence.num <= confidence.den

\* two runs fed sixteen taken branches to a saturated counter
C7_Witness ==
  /\ last.op = "run" /\ ~last.threw
  /\ calls = 2
  /\ predictor.counter = 3
  /\ Len(predictor.history) = HistoryLimit
  /\ AllTaken(predictor.history)

\* C8: predict returns counter >= 2 on the counter as it was before the call,
\* whatever the outcome argument, then moves the counter up (at most to 3) on
\* a true outcome and down (at least to 0) otherwise; a fresh predictor given
\* only true outcomes always returns true and is left at counter 3, with a
\* confidence of at least 0.66.
C8_PredictReadsThenUpdates ==
  [][ last'.op = "predict"
      => LET taken == ToBoolean(last'.outcome)
         IN /\ ~last'.threw
            /\ last'.prediction = (predictor.counter >= 2)
            /\ predictor'.counter = IF taken THEN Min(3, predictor.counter + 1)
                                    ELSE Max(0, predictor.counter - 1)
            /\ AllTaken(predictor'.history)
                 => /\ last'.prediction = TRUE
                    /\ predictor'.counter = 3
                    /\ last'.confidence.num * 100 >= 66 * last'.confidence.den
    ]_vars

\* a false outcome was just supplied to a predictor that still predicts taken
C8_Witness ==
  /\ last.op = "predict"
  /\ last.outcome = Bool(FALSE)
  /\ last.prediction = TRUE
  /\ predictor.counter = 1
  /\ Len(predictor.history) >= 3

-----------------------------------------------------------------------------
(* Properties of the defence toggles *)

AllFalse == [key \in ToggleKeys |-> FALSE]

IsSetter(op) ==
  op \in {"setConstantTime", "setJitter", "setFence", "setClampTimers",
          "setDetection"}

ToggleOf(op) ==
  CASE op = "setConstantTime" -> "constantTime"
    [] op = "setJitter" -> "jitter"
    [] op = "setFence" -> "fence"
    [] op = "setClampTimers" -> "clampTimers"
    [] op = "setDetection" -> "detection"

\* C9: after any setter calls, getState(false) returns the five toggles all
\* false and leaves the stored toggles as they were.
C9_BaselineViewAllFalse ==
  [][ (last'.op = "getState" /\ last'.defended = Bool(FALSE))
      => /\ ~last'.threw
         /\ DOMAIN last'.result = ToggleKeys
         /\ last'.result = AllFalse
         /\ toolkit' = toolkit
    ]_vars

\* a baseline view was taken of a toolkit whose toggles had been changed
C9_Witness ==
  /\ last.op = "getState" /\ last.defended = Bool(FALSE)
  /\ last.result = AllFalse
  /\ toolkit.state.fence /\ toolkit.state.detection
  /\ ~toolkit.state.jitter /\ ~toolkit.state.constantTime

\* C10: a run, baseline or defended, leaves the stored toggles alone, and a
\* setter given a boolean stores it under its own key only; so the stored
\* toggles are always the values last given by the setters, and a defended
\* run works with them (it reports a detection exactly when detection is on).
C10_RunKeepsStoredToggles ==
  [][ /\ last'.op = "run"
        => /\ toolkit' = toolkit
           /\ (~last'.threw /\ last'.defended = Bool(TRUE))
                => (last'.result.detection.isNull <=> ~toolkit.state.detection)
           /\ (~last'.threw /\ last'.defended = Bool(FALSE))
                => last'.result.detection.isNull
      /\ last'.op = "predict" => toolkit' = toolkit
      /\ (IsSetter(last'.op) /\ last'.value.typeof = "boolean")
        => toolkit'.state =
             [toolkit.state EXCEPT ![ToggleOf(last'.op)] = (last'.value.val = 1)]
    ]_vars

\* a defended run, not the first call, used toggles some of which were off
C10_Witness ==
  /\ last.op = "run" /\ ~last.threw
  /\ last.defended = Bool(TRUE)
  /\ calls = 2
  /\ Len(L2Lines(cache)) > 6
  /\ ~toolkit.state.detection /\ ~toolkit.state.constantTime
  /\ toolkit.state.fence /\ toolkit.state.clampTimers
  /\ last.result.detection.isNull

\* C11: each of the five setters, given a value that is not a boolean, throws
\* and leaves all five stored toggles as they were.
C11_NonBooleanToggleRejected ==
  [][ (IsSetter(last'.op) /\ last'.value.typeof # "boolean")
      => /\ last'.threw
         /\ last'.error = "expected boolean"
         /\ toolkit' = toolkit
    ]_vars

\* a truthy number was refused by setJitter while jitter was stored off
C11_Witness ==
  /\ last.op = "setJitter" /\ last.value = Num(1)
  /\ last.threw
  /\ ~toolkit.state.jitter /\ toolkit.state.fence

-----------------------------------------------------------------------------
(* Properties of the timing transformations *)

\* a record _validateTimings accepts: at least one entry, every value a
\* number other than NaN
ValidTimings(timings) ==
  /\ Len(timings) > 0
  /\ \A i \in DOMAIN timings :
       timings[i].value.typeof = "number" /\ timings[i].value.kind # "nan"

SameKeys(result, timings) ==
  /\ Len(result) = Len(timings)
  /\ \A i \in DOMAIN timings : result[i].key = timings[i].key

\* v bounded to [20, 180]
Bounded(v) ==
  IF v.kind = "inf" THEN (IF v.val > 0 THEN T(180) ELSE T(20))
  ELSE IF v.val > 180 * Scale THEN T(180)
  ELSE IF v.val < 20 * Scale THEN T(20)
  ELSE v

\* v is the largest value of the record
IsMaximum(v, timings) ==
  /\ \E i \in DOMAIN timings : timings[i].value = v
  /\ \A i \in DOMAIN timings : ~JsLess(v, timings[i].value)

C13_DefencesOffIsIdentity ==
  [][ ( /\ last'.op = "applyDefences"
        /\ ValidTimings(last'.timings)
        /\ ~last'.state.jitter /\ ~last'.state.fence )
      => /\ ~last'.threw
         /\ last'.result = last'.timings
    ]_vars

\* a mispredicted record with values outside [20, 180] came back untouched
C13_Witness ==
  /\ last.op = "applyDefences" /\ ~last.threw
  /\ last.mispredict
  /\ ~last.state.jitter /\ ~last.state.fence
  /\ last.timings = <<Entry("prime", T(400)), Entry("speculate", T(10))>>
  /\ last.result = last.timings

\* a timing record in the sense of the data model: at least one entry, every
\* value a finite number
FiniteTimings(timings) ==
  /\ Len(timings) > 0
  /\ \A i \in DOMAIN timings :
       timings[i].value.typeof = "number" /\ timings[i].value.kind = "finite"

\* C14: the toolkit's clampTiming on a record of finite values returns the
\* same keys, every value being the multiple of 5 nearest to the input value,
\* the upper one on a tie; values outside [20, 180] are not pulled into it.
C14_ClampTimingRoundsToFive ==
  [][ (last'.op = "clampTiming" /\ FiniteTimings(last'.timings))
      => /\ ~last'.threw
         /\ SameKeys(last'.result, last'.timings)
         /\ \A i \in DOMAIN last'.result :
              LET v == last'.timings[i].value.val
                  r == last'.result[i].value
              IN /\ r.typeof = "number" /\ r.kind = "finite"
                 /\ r.val % (5 * Scale) = 0
                 /\ 2 * (r.val - v) <= 5 * Scale
                 /\ 2 * (v - r.val) < 5 * Scale
    ]_vars

\* 12.5 went up to 15, -7.5 up to -5, and 400 stayed 400
C14_Witness ==
  /\ last.op = "clampTiming" /\ ~last.threw
  /\ last.timings = <<Entry("a", Num((25 * Scale) \div 2)),
                      Entry("b", Num(-((15 * Scale) \div 2))),
                      Entry("c", T(400))>>
  /\ last.result = <<Entry("a", T(15)), Entry("b", T(-5)), Entry("c", T(400))>>

\* v + d for an integer offset d
PlusOffset(v, d) == IF v.kind = "finite" THEN Num(v.val + d * Scale) ELSE v

\* half of v
Halved(v) == IF v.kind = "finite" THEN Num(v.val \div 2) ELSE v

\* C27: applyDefences on a valid record adjusts it in two independent steps.
\* With state.jitter on every value becomes the value plus an integer offset
\* of magnitude at most 5, bounded to [20, 180], and is copied unchanged
\* otherwise; then, exactly when state.fence is on and mispredict is true, the
\* speculate value alone is replaced by half of its value after the first
\* step, bounded to [20, 180]; every other key keeps its value of the first
\* step.
C27_JitterThenFenceIndependently ==
  [][ (last'.op = "applyDefences" /\ ValidTimings(last'.timings))
      => /\ ~last'.threw
         /\ Len(last'.result) >= Len(last'.timings)
         /\ \A i \in DOMAIN last'.timings :
              /\ last'.result[i].key = last'.timings[i].key
              /\ \E d \in -5..5 :
                   LET jittered ==
                         IF last'.state.jitter
                         THEN Bounded(PlusOffset(last'.timings[i].value, d))
                         ELSE last'.timings[i].value
                   IN last'.result[i].value =
                        IF /\ last'.timings[i].key = "speculate"
                           /\ last'.state.fence /\ last'.mispredict
                        THEN Bounded(Halved(jittered))
                        ELSE jittered
    ]_vars

\* a mispredicted record under jitter and fence: prime moved by the offset,
\* speculate moved by it and then halved
C27_Witness ==
  /\ last.op = "applyDefences" /\ ~last.threw
  /\ last.mispredict /\ last.state.jitter /\ last.state.fence
  /\ last.sample = 39
  /\ last.timings = <<Entry("prime", T(30)), Entry("speculate", T(400))>>
  /\ last.result = <<Entry("prime", T(34)), Entry("speculate", T(90))>>

\* C30: for every timing record of finite values under keys of the caller's
\* choosing (with or without a speculate key), every state and either value
\* of mispredict, each of applyConstantTime, applyDefences and the toolkit's
\* clampTiming returns a record with exactly the keys of its input, all of
\* whose values are finite numbers.
C30_TransformsKeepKeysAndFiniteness ==
  [][ ( /\ last'.op \in {"applyConstantTime", "applyDefences", "clampTiming"}
        /\ FiniteTimings(last'.timings) )
      => /\ ~last'.threw
         /\ SameKeys(last'.result, last'.timings)
         /\ FiniteTimings(last'.result)
    ]_vars

-----------------------------------------------------------------------------
(* Properties of the arguments of run *)

\* the pattern is not {name: non-empty string, training: booleans,
\* trigger: boolean}
PatternMalformed(pattern) ==
  \/ pattern.isNull
  \/ pattern.name.typeof # "string"
  \/ pattern.name.val = 0
  \/ ~pattern.training.isArray
  \/ \E i \in DOMAIN pattern.training.items :
       pattern.training.items[i].typeof # "boolean"
  \/ pattern.trigger.typeof # "boolean"

\* a second argument was passed and is not a boolean; undefined stands for
\* an omitted argument, which takes the default false
DefendedMalformed(defended) == defended.typeof \notin {"boolean", "undefined"}

\* C15: run is rejected exactly when the pattern's name is not a non-empty
\* string, or training is not an array of booleans, or trigger is not a
\* boolean, or defended is not a boolean.
C15_RejectedIffMalformed ==
  [][ last'.op = "run"
      => (last'.threw
            <=> (PatternMalformed(last'.pattern) \/ DefendedMalformed(last'.defended)))
    ]_vars

\* C16: a run rejected for a malformed pattern or a non-boolean defended flag
\* leaves the cache, the predictor's counter and history and the toggles as
\* they were, and calls no renderer method.
C16_RejectionTouchesNothing ==
  [][ ( /\ last'.op = "run" /\ last'.threw
        /\ PatternMalformed(last'.pattern) \/ DefendedMalformed(last'.defended) )
      => /\ cache' = cache
         /\ predictor' = predictor
         /\ toolkit' = toolkit
         /\ last'.rendered = <<>>
         /\ ~last'.logged
    ]_vars

\* a non-boolean flag was refused by a simulator that had already run once
\* and whose toggles had been changed
C16_Witness ==
  /\ last.op = "run" /\ last.threw
  /\ last.defended = Str(3)
  /\ last.rendered = <<>>
  /\ calls = 1
  /\ Len(L1Lines(cache)) > 0
  /\ Len(predictor.history) > 0
  /\ ~toolkit.state.fence

-----------------------------------------------------------------------------
(* Properties of the result of a run *)

RunReturned == last'.op = "run" /\ ~last'.threw

\* C17: the detection of a successful run is null exactly when the run is a
\* baseline run or the detection toggle is off; otherwise it is a record with
\* a finite avg, a std that is the root of a non-negative variance, and a
\* boolean suspicious, whatever the other toggles and the earlier calls.
C17_DetectionNullIffBaselineOrOff ==
  [][ RunReturned
      => LET detection == last'.result.detection
         IN /\ detection.isNull
                 <=> (last'.defended = Bool(FALSE) \/ ~toolkit.state.detection)
            /\ ~detection.isNull
                 => /\ detection.finite
                    /\ detection.avg.den > 0
                    /\ detection.variance.den > 0
                    /\ detection.variance.num >= 0
                    /\ detection.suspicious \in BOOLEAN
    ]_vars

\* a defended second run with detection on and constant-time off was flagged
C17_Witness ==
  /\ last.op = "run" /\ ~last.threw
  /\ last.defended = Bool(TRUE)
  /\ calls = 2
  /\ toolkit.state.detection /\ ~toolkit.state.constantTime
  /\ ~last.result.detection.isNull
  /\ last.result.detection.variance.num > 0
  /\ last.result.detection.suspicious

-----------------------------------------------------------------------------
(* Properties of Pipeline.simulate *)

\* the input is no array, or some entry lacks a string label or a boolean flag
InstructionsMalformed(instructions) ==
  \/ ~instructions.isArray
  \/ \E i \in DOMAIN instructions.items :
       \/ instructions.items[i].label.typeof # "string"
       \/ instructions.items[i].speculative.typeof # "boolean"

\* C18: Pipeline.simulate fails, producing no stage, exactly when the input
\* is not an array or some entry (at any index) lacks a string label or a
\* boolean speculative flag; otherwise it returns the four stages fetch,
\* decode, execute, retire in that order, stage i holding only instruction i
\* (nothing if absent, so that instructions past the fourth appear nowhere),
\* with speculative = mispredict AND the instruction's own flag.
C18_SimulateAllOrNothing ==
  [][ last'.op = "simulate"
      => LET items == last'.instructions.items
             stageNames == <<"fetch", "decode", "execute", "retire">>
         IN /\ last'.threw <=> InstructionsMalformed(last'.instructions)
            /\ last'.threw => last'.result = <<>>
            /\ ~last'.threw
                 => /\ Len(last'.result) = 4
                    /\ \A i \in 1..4 :
                         /\ last'.result[i].stage = stageNames[i]
                         /\ last'.result[i].instructions =
                              IF i <= Len(items)
                              THEN << [label |-> items[i].label,
                                       speculative |->
                                         Bool(last'.mispredict
                                              /\ items[i].speculative = Bool(TRUE))] >>
                              ELSE <<>>
    ]_vars

\* five well-formed instructions were mapped under a misprediction
C18_Witness ==
  /\ last.op = "simulate" /\ ~last.threw
  /\ last.mispredict
  /\ Len(last.instructions.items) = 5
  /\ last.instructions.items[1].speculative = Bool(TRUE)
  /\ last.instructions.items[2].speculative = Bool(FALSE)
  /\ last.result[1].instructions[1].speculative = Bool(TRUE)
  /\ last.result[2].instructions[1].speculative = Bool(FALSE)

\* C19: in the result of every successful run, whatever the pattern, the
\* toggles, the value of defended, the jitter draws and the earlier calls,
\* the measurements are prime, speculate and probe, each a finite number
\* in [20, 180].
C19_MeasurementsWithinRange ==
  [][ RunReturned
      => LET measurements == last'.result.measurements
         IN /\ {measurements[i].key : i \in DOMAIN measurements}
                 = {"prime", "speculate", "probe"}
            /\ \A i \in DOMAIN measurements :
                 /\ measurements[i].value.typeof = "number"
                 /\ measurements[i].value.kind = "finite"
                 /\ measurements[i].value.val >= 20 * Scale
                 /\ measurements[i].value.val <= 180 * Scale
    ]_vars

\* a defended second run with jitter and timer clamping on measured a
\* jittered prime and a speculate at the lower end of the range
C19_Witness ==
  /\ last.op = "run" /\ ~last.threw
  /\ last.defended = Bool(TRUE)
  /\ calls = 2
  /\ toolkit.state.jitter /\ toolkit.state.clampTimers /\ ~toolkit.state.constantTime
  /\ last.draws = 6
  /\ \E i \in DOMAIN last.result.measurements :
       /\ last.result.measurements[i].key = "prime"
       /\ last.result.measurements[i].value # T(60)
  /\ \E i \in DOMAIN last.result.measurements :
       /\ last.result.measurements[i].key = "speculate"
       /\ last.result.measurements[i].value = T(20)

-----------------------------------------------------------------------------
(* Determinism of a run given the random source *)

\* the random sources t1 and t2 give the same first n values
SameDraws(t1, t2, n) == \A i \in 1..n : t1[i] = t2[i]

\* the outcomes (result, renderer calls, next cache, predictor and toolkit)
\* of the call run(pattern, defended) in the present state are equal under
\* any two random sources that give the same values to the draws it makes
RunDetermined(pattern, defendedArg) ==
  \E outs \in { << AttackSimulator_run(cache, predictor, toolkit,
                                       pattern, defendedArg, DrawTapes[1]),
                   AttackSimulator_run(cache, predictor, toolkit,
                                       pattern, defendedArg, DrawTapes[2]),
                   AttackSimulator_run(cache, predictor, toolkit,
                                       pattern, defendedArg, DrawTapes[3]) >> } :
    \A i, j \in DOMAIN DrawTapes :
      SameDraws(DrawTapes[i], DrawTapes[j], outs[i].draws) => outs[i] = outs[j]

\* the calls compared in each state: the patterns of at most four training
\* outcomes, defended or not, and the call that leaves defended out
NextCallInputs ==
  ({pattern \in ValidPatterns : Len(pattern.training.items) <= 4}
     \X {Bool(TRUE), Bool(FALSE)})
    \cup {<<branchTrain, Undefined>>}

-----------------------------------------------------------------------------
(* Calls of run that are not awaited *)

RECURSIVE AwaitedRuns(_, _)
\* the outcome of the n-th of the calls when each is awaited before the next
\* is issued, on a simulator constructed anew
AwaitedRuns(issued, n) ==
  IF n = 0 THEN Rejected(CacheModel, BranchPredictor, DefenceToolkit, "")
  ELSE The({ AttackSimulator_run(before.cache, before.predictor, before.toolkit,
                                 issued[n].pattern, issued[n].defended, issued[n].tape)
             : before \in {AwaitedRuns(issued, n - 1)} })

\* C21: when run calls are issued on one simulator without awaiting one
\* another, each call mutates the cache and the predictor as one block at the
\* moment it is issued: after every call the cache and predictor are those of
\* the same calls awaited one by one, and every promise, settled or not,
\* carries the outcome of the awaited call of the same rank (its result, its
\* renderer calls and the cache and predictor it left for the next call).
C21_UnawaitedRunsEqualAwaitedRuns ==
  last.op \in {"call", "settle"}
    => /\ \A n \in DOMAIN last.promises :
            ~last.promises[n].suspended
              => last.promises[n].outcome = AwaitedRuns(last.issued, n)
       /\ cache = AwaitedRuns(last.issued, Len(last.issued)).cache
       /\ predictor = AwaitedRuns(last.issued, Len(last.issued)).predictor

\* two calls were issued and none has settled; the second found the lines
\* the first had primed and the counter the first had trained
C21_Witness ==
  /\ last.op = "call"
  /\ Len(last.promises) = 2 /\ last.settled = 0
  /\ ~last.promises[1].outcome.threw
  /\ ~last.promises[2].outcome.threw
  /\ ~last.promises[1].outcome.result.primeResults[1].hit
  /\ last.promises[2].outcome.result.primeResults[1].hit
  /\ last.promises[2].outcome.result.trainingResults[1]
       # last.promises[1].outcome.result.trainingResults[1]

-----------------------------------------------------------------------------
(* Properties of the steps of a run *)

\* the addresses run selects for last'.pattern in the present state
SelectedAddresses ==
  AttackSimulator_selectAddresses(
    Len(last'.pattern.training.items) + 2,
    DefenceToolkit_getState(toolkit, last'.defended).result).result

\* C22: every successful run selects exactly training.length + 2 addresses,
\* the first training.length + 2 entries 0, 4, 8, ... of the pool in pool
\* order, and primeResults has training.length + 2 entries, for every
\* training length.
C22_SelectsTrainingLengthPlusTwo ==
  [][ RunReturned
      => LET count == Len(last'.pattern.training.items) + 2
         IN /\ Len(SelectedAddresses) = count
            /\ \A i \in DOMAIN SelectedAddresses :
                 SelectedAddresses[i] = Num(4 * (i - 1))
            /\ Len(last'.result.primeResults) = count
    ]_vars

\* C23: in every defended run with the constant-time toggle on, the three
\* measurements are equal to one another, whatever the pattern, the
\* misprediction, the other toggles, the jitter draws and the earlier calls;
\* when detection is on, its variance (hence its std) is 0 and suspicious is
\* false.
C23_ConstantTimeMeasurementsEqual ==
  [][ (RunReturned /\ last'.defended = Bool(TRUE) /\ toolkit.state.constantTime)
      => LET measurements == last'.result.measurements
             detection == last'.result.detection
         IN /\ Len(measurements) = 3
            /\ \A i, j \in DOMAIN measurements :
                 measurements[i].value = measurements[j].value
            /\ toolkit.state.detection
                 => /\ ~detection.isNull
                    /\ detection.variance.num = 0
                    /\ ~detection.suspicious
    ]_vars

\* a defended second run under constant-time, jitter and detection measured
\* three equal values other than the unjittered 60
C23_Witness ==
  /\ last.op = "run" /\ ~last.threw
  /\ last.defended = Bool(TRUE)
  /\ calls = 2
  /\ toolkit.state.constantTime /\ toolkit.state.jitter /\ toolkit.state.detection
  /\ last.result.mispredict
  /\ last.result.measurements[1].value # T(60)
  /\ last.result.measurements[1].value = last.result.measurements[2].value
  /\ last.result.measurements[2].value = last.result.measurements[3].value
  /\ last.result.detection.variance.num = 0

RECURSIVE Fed(_, _, _)
\* the saturating counter after the first n of the outcomes, and the
\* prediction read from the counter before each of them was counted
Fed(counter, outcomes, n) ==
  IF n = 0 THEN [counter |-> counter, predictions |-> <<>>]
  ELSE The({ [counter |->
                IF outcomes[n] = Bool(TRUE)
                THEN (IF before.counter < 3 THEN before.counter + 1 ELSE 3)
                ELSE (IF before.counter > 0 THEN before.counter - 1 ELSE 0),
              predictions |-> Append(before.predictions, before.counter >= 2)]
             : before \in {Fed(counter, outcomes, n - 1)} })

\* the last 16 entries of a history
Last16(history) ==
  IF Len(history) <= 16 THEN history
  ELSE SubSeq(history, Len(history) - 15, Len(history))

\* C24: in every run the training outcomes go to the shared predictor in
\* order, trainingResults[i] being the prediction made before outcome i is
\* counted; then the trigger is predicted once, and mispredict is true exactly
\* when that prediction, read from the counter as the training and all
\* earlier runs left it, differs from the trigger; the trigger is counted and
\* recorded in the history like a training outcome.
C24_TrainingThenTrigger ==
  [][ RunReturned
      => LET outcomes == last'.pattern.training.items
             n == Len(outcomes)
             trigger == last'.pattern.trigger
         IN \E fed \in {Fed(predictor.counter, outcomes \o <<trigger>>, n + 1)} :
              /\ last'.result.trainingResults = SubSeq(fed.predictions, 1, n)
              /\ last'.result.mispredict
                   = (fed.predictions[n + 1] # (trigger = Bool(TRUE)))
              /\ predictor'.counter = fed.counter
              /\ predictor'.history
                   = Last16(predictor.history
                              \o [i \in 1..(n + 1) |->
                                    (outcomes \o <<trigger>>)[i] = Bool(TRUE)])
    ]_vars

\* a run on a predictor trained by earlier calls answered its training with
\* both predictions and mispredicted the trigger
C24_Witness ==
  /\ last.op = "run" /\ ~last.threw
  /\ calls = 2
  /\ Len(last.result.trainingResults) = 2
  /\ last.result.trainingResults[1] # last.result.trainingResults[2]
  /\ last.result.mispredict
  /\ Len(predictor.history) > 3

\* the training ends with two equal outcomes and the trigger is their opposite
Mistrains(pattern) ==
  LET outcomes == pattern.training.items
      n == Len(outcomes)
  IN /\ n >= 2
     /\ outcomes[n] = outcomes[n - 1]
     /\ pattern.trigger.typeof = "boolean"
     /\ pattern.trigger # outcomes[n]

\* C25: every run of a pattern whose training ends with at least two equal
\* outcomes and whose trigger is the opposite outcome reports mispredict =
\* true and the summary 'Speculative path observed', whatever runs and
\* predictions preceded it and whatever the defence state.
C25_MistrainingAlwaysMispredicts ==
  [][ (RunReturned /\ Mistrains(last'.pattern))
      => /\ last'.result.mispredict
         /\ last'.result.summary = "Speculative path observed"
    ]_vars

\* after calls that had trained the predictor towards taken, a run training
\* not-taken twice and triggering taken mispredicted
C25_Witness ==
  /\ last.op = "run" /\ ~last.threw
  /\ calls = 2
  /\ last.pattern.training.items = <<Bool(FALSE), Bool(FALSE)>>
  /\ last.pattern.trigger = Bool(TRUE)
  /\ last.result.trainingResults = <<TRUE, TRUE>>
  /\ last.result.mispredict
  /\ last.result.summary = "Speculative path observed"
  /\ Len(predictor.history) >= 9

\* the stages handed to visualiser.renderPipeline by the run just made
PipelineView == last'.rendered[1].pipelineView

\* C26: in every run the pipeline view given to the renderer has one
\* instruction in each of its four stages, and an instruction is marked
\* speculative only if it is in the decode or execute stage, the trigger is
\* false, the run mispredicted and the fence flag of the active state is off:
\* the branch and retire steps are never marked, and nothing is marked in a
\* defended run with the fence toggle on.
C26_SpeculativeMarksOnlyOnMispredictedPath ==
  [][ RunReturned
      => /\ last'.rendered[1].method = "renderPipeline"
         /\ Len(PipelineView) = 4
         /\ \A i \in 1..4 :
              /\ Len(PipelineView[i].instructions) = 1
              /\ PipelineView[i].instructions[1].speculative \in {Bool(TRUE), Bool(FALSE)}
              /\ PipelineView[i].instructions[1].speculative = Bool(TRUE)
                   => /\ PipelineView[i].stage \in {"decode", "execute"}
                      /\ i \in {2, 3}
                      /\ last'.pattern.trigger = Bool(FALSE)
                      /\ last'.result.mispredict
                      /\ ~(last'.defended = Bool(TRUE) /\ toolkit.state.fence)
    ]_vars

\* a defended run with the fence toggle off mispredicted a not-taken trigger
\* and showed exactly the decode and execute steps as speculative
C26_Witness ==
  /\ last.op = "run" /\ ~last.threw
  /\ last.defended = Bool(TRUE) /\ ~toolkit.state.fence
  /\ last.pattern.trigger = Bool(FALSE)
  /\ last.result.mispredict
  /\ last.rendered[1].pipelineView[1].instructions[1].speculative = Bool(FALSE)
  /\ last.rendered[1].pipelineView[2].instructions[1].speculative = Bool(TRUE)
  /\ last.rendered[1].pipelineView[3].instructions[1].speculative = Bool(TRUE)
  /\ last.rendered[1].pipelineView[4].instructions[1].speculative = Bool(FALSE)

\* what an access served by L1 returns
L1Hit == [level |-> "L1", hit |-> TRUE, latency |-> 8]

C29_ValidatedRunNeverFails ==
  [][ ( /\ last'.op = "run"
        /\ ~PatternMalformed(last'.pattern)
        /\ ~DefendedMalformed(last'.defended) )
      => /\ ~last'.threw
         /\ last'.error = ""
         /\ last'.result.summary
              \in {"Speculative path observed", "No speculation observed"}
         /\ Len(last'.result.primeResults) >= 2
         /\ Len(last'.result.probeResults) >= 2
         /\ Len(last'.result.measurements) = 3
         /\ Len(last'.rendered) = 3
         /\ last'.logged
    ]_vars

\* a defended second run with an empty training, under jitter and detection,
\* returned a result with two probes
C29_Witness ==
  /\ last.op = "run" /\ ~last.threw
  /\ calls = 2
  /\ last.pattern.training.items = <<>>
  /\ last.defended = Bool(TRUE)
  /\ toolkit.state.jitter /\ toolkit.state.detection /\ toolkit.state.fence
  /\ Len(last.result.probeResults) = 2
  /\ Len(last.rendered) = 3

====
